---- MODULE Spec2Model ----
(***************************************************************************)
(* Realtime messaging relay (socket.io in front of a Parse object store).  *)
(* The repository holds several entrypoint variants of the same server;    *)
(* one behaviour of this model is one deployment of one variant:           *)
(*   "part_008"  chat + FCM push                (src/unnamed/part_008)     *)
(*   "part_006"  chat + FCM push + saveFcmToken (src/unnamed/part_006)     *)
(*   "index_a"   chat + FCM push, bare join     (src/index.ts:1-147)       *)
(*   "index_b"   chat + markAsRead              (src/index.ts:148-376)     *)
(*   "index_c"   chat + follow socket events    (src/index.ts:378-643)     *)
(*   "part_005"  chat + follow cloud functions  (src/unnamed/part_005)     *)
(*   "part_002"  chat + /vibe routes            (src/unnamed/part_002)     *)
(*   "dist"      compiled early build           (src/dist/index.js)        *)
(* Every await of a handler is a separate step, so other events interleave *)
(* exactly where the event loop lets them.                                 *)
(***************************************************************************)
EXTENDS Integers, Sequences, FiniteSets, TLC

\* ---------------------------------------------------------------- bounds
MaxSock == 2
MaxJoins == 3
MaxRelayJoins == 1
MaxReq == 2
MaxCalls == 3
MaxSocketCalls == 2
MaxReadJoins == 2
MaxOps == 2

\* ------------------------------------------------------------- constants
None == "none"
NoSock == 0
Variants == {"part_008", "part_006", "index_a", "index_b", "index_c",
             "part_005", "part_002", "dist"}
Profiles == {"alice", "bob"}
Ids == Profiles \cup {"ghost"}
EmptyId == ""
JoinIds == Ids \cup {EmptyId}
Tokens == {"T1", "T2"}
SenderSock == 1
SenderIds == {"alice"}
ReceiverIds == {"bob", "ghost"}
RelayJoinIds == {"bob"}
TokUsers == {"bob"}
NewTokens == {"T2"}
FollowFrom == {"alice"}
FollowTo == {"bob", "alice", "ghost"}
UnfollowTo == {"bob", "ghost"}
FollowJoinIds == {"alice", "bob"}
ReadSenders == {"alice"}
Sockets == 1..MaxSock
Reqs == 1..MaxReq
Calls == 1..MaxCalls

VARIABLES variant, conn, onlineUsers, joins, joinHist, joinAck, fcmToken,
          tokenHist, messages, reqs, out, pushes, tok,
          edges, followingCount, followersCount, calls, fout,
          readIds, mark, mout, boot

\* the presence directory and the connections; joins counts the join events,
\* joinHist[x] is the last join of identity x: its socket and the socket
\* the identity resolved to before it; joinAck holds what the latest run of
\* the join handler emitted
presenceVars == <<conn, onlineUsers, joins, joinHist, joinAck>>
\* the object store: the Profiles' fcmToken field and the Message class
storeVars == <<fcmToken, tokenHist, messages>>
\* the sendMessage invocations, the events each emitted, its Notifier calls
relayVars == <<reqs, out, pushes>>
\* the social graph: the Follow Edge records, the Profiles' counters, the
\* followUser / unfollowUser invocations and the events each emitted
socialVars == <<edges, followingCount, followersCount, calls, fout>>
\* the read flags of the Message records, the markAsRead invocation and the
\* events it emitted
readVars == <<readIds, mark, mout>>
vars == <<variant, presenceVars, storeVars, relayVars, tok, socialVars,
          readVars, boot>>

\* ------------------------------------------------- variant feature flags
\* the startup function wraps its body in try / catch { process.exit(1) }
HasStartCatch(v) ==
  v \in {"part_008", "index_b", "index_c", "part_005", "part_002"}
\* the handler looks the recipient's Profile up before saving
HasReceiverLookup(v) == v # "dist"
\* the handler looks the sender's Profile up (for the push payload)
HasSenderLookup(v) == v \in {"part_008", "part_006", "index_a"}
\* the handler calls admin.messaging().send
HasFcm(v) == v \in {"part_008", "part_006", "index_a"}
\* the catch block reports to the sender
CatchEmits(v) == v # "dist"
\* the payload carries saved.id
PayloadHasObjectId(v) == v # "dist"
\* join returns early on a falsy identity
JoinGuard(v) == v = "index_c"
\* the variant defines the saveFcmToken cloud function
HasSaveFcmToken(v) == v = "part_006"
\* join acknowledges with socket.emit("joined", { success: true })
JoinAcks(v) == v # "index_a"
\* the disconnect loop leaves at the first entry it deletes
BreaksAfterFirst(v) == v # "index_a"
\* sendMessage also emits refreshInbox, and messageSent to the sender's entry
RefreshesInbox(v) == v = "index_b"
\* the variant handles the markAsRead event
HasMarkAsRead(v) == v = "index_b"
\* the variants that have a follow entry point: socket events (index_c),
\* cloud functions (part_005), HTTP routes (part_002)
FollowVariants == {"index_c", "part_005", "part_002"}
SocketFollow(v) == v = "index_c"
\* follow rejects from === to
HasSelfCheck(v) == v \in {"index_c", "part_005"}
\* the entry point rejects a falsy id
HasIdCheck(v) == v \in {"part_005", "part_002"}
\* both Profiles are fetched first
HasProfileLookup(v) == v \in {"part_005", "part_002"}
\* follow queries the edge before it saves one
HasExistsCheck(v) == v \in {"index_c", "part_005"}
\* follow / unfollow increment followingCount and followersCount
HasCounters(v) == v = "part_005"
\* the startup block declares a unique index on the edge's pair
HasUniqueIndex(v) == v \in {"part_005", "part_002"}
\* follow socket events, or cloud function / route calls, of one behaviour
CallBound(v) == IF SocketFollow(v) THEN MaxSocketCalls ELSE MaxCalls

\* ------------------------------------------ onlineUsers: Map<string,string>
\* A JS Map iterates in insertion order and set() on an existing key keeps
\* the key's position: a sequence of [id, sid] entries with distinct ids.
MapHas(m, k) == \E i \in DOMAIN m : m[i].id = k

MapGet(m, k) ==
  IF MapHas(m, k) THEN m[CHOOSE i \in DOMAIN m : m[i].id = k].sid ELSE NoSock

MapSetIfAbsent(m, k, v) ==
  IF MapHas(m, k) THEN m ELSE Append(m, [id |-> k, sid |-> v])

MapSet(m, k, v) ==
  IF MapHas(m, k)
  THEN [i \in DOMAIN m |-> IF m[i].id = k THEN [id |-> k, sid |-> v] ELSE m[i]]
  ELSE Append(m, [id |-> k, sid |-> v])

RemoveAt(m, i) == [j \in 1..(Len(m) - 1) |-> IF j < i THEN m[j] ELSE m[j + 1]]

\* for (const [id, sid] of onlineUsers.entries())
\*   if (sid === socket.id) { onlineUsers.delete(id); break; }
DeleteHead(m, s) == IF m = <<>> THEN m ELSE Tail(m)

DeleteFirst(m, s) ==
  IF \E i \in DOMAIN m : m[i].sid = s
  THEN RemoveAt(m, CHOOSE i \in DOMAIN m :
                      /\ m[i].sid = s
                      /\ \A j \in DOMAIN m : m[j].sid = s => i <= j)
  ELSE m

\* for (const [id, sid] of onlineUsers.entries())
\*   if (sid === socket.id) onlineUsers.delete(id);       (index.ts:133-137)
DeleteAll(m, s) == SelectSeq(m, LAMBDA e : e.sid # s)

CountOf(m, k) == Cardinality({i \in DOMAIN m : m[i].id = k})

\* ------------------------------------------------------------- requests
\* a handler invocation: its data, its locals and the exception it caught.
\* receiver is the fcmToken of the fetched Profile; histAtLookup is the
\* recipient's tokenHist when the Profile was fetched; afterInvalid tells
\* that, when the handler was invoked, an earlier invocation for the same
\* recipient had finished after the Notifier rejected the token; overtaken
\* that, when the handler emitted newMessage, the same connection had
\* already been sent the newMessage of a request the same sender connection
\* issued later for the same recipient.
IdleReq == [pc |-> "idle", sock |-> NoSock, senderId |-> None,
            receiverId |-> None, receiver |-> None, objectId |-> 0,
            receiverSocketId |-> NoSock, fcmErr |-> None, err |-> None,
            histAtLookup |-> None, afterInvalid |-> FALSE,
            overtaken |-> FALSE]

\* stored: the invocation's write of the token succeeded
IdleTok == [pc |-> "idle", userId |-> None, fcmToken |-> None,
            stored |-> FALSE]

\* a followUser / unfollowUser invocation (socket event, cloud function or
\* /vibe route): found is the edge its query returned (the id of the
\* invocation that created it, 0 for none), result what it reported, wrote
\* the store writes of the invocation that were applied, rejected whether a
\* store call of it failed, seq whether every earlier invocation had
\* finished when it started, pre the two counters and the number of the
\* pair's edges as they were then
IdleCall == [pc |-> "idle", op |-> None, sock |-> NoSock, from |-> None,
             to |-> None, found |-> 0, result |-> None, wrote |-> {},
             rejected |-> FALSE, seq |-> FALSE,
             pre |-> [following |-> 0, followers |-> 0, edges |-> 0]]

\* the markAsRead invocation: auth0Id is the identity it resolved the
\* socket to, unread the objectIds its query returned
IdleMark == [pc |-> "idle", sock |-> NoSock, senderId |-> None,
             auth0Id |-> None, unread |-> {}]

Started == {r \in Reqs : reqs[r].pc # "idle"}
NextReq == Cardinality(Started) + 1

Ev(e, s, oid, msg) == [ev |-> e, to |-> s, objectId |-> oid, error |-> msg]

\* catch (err) { socket.emit("sendError", { error: err.message }) }
CatchEvents(v, s) ==
  IF CatchEmits(v) THEN <<Ev("sendError", s, 0, "store")>> ELSE <<>>

\* tokenHist[p], the history of a Profile's token: "cleared" once a
\* handler's clearing write succeeded, None again when a token is registered
Init ==
  /\ variant \in Variants
  /\ conn = [s \in Sockets |-> "idle"]
  /\ onlineUsers = <<>>
  /\ joins = 0
  /\ joinHist = [x \in JoinIds |-> [sock |-> NoSock, prev |-> NoSock]]
  /\ joinAck = <<>>
  /\ fcmToken = [p \in Profiles |-> IF p = "bob" THEN "T1" ELSE None]
  /\ tokenHist = [p \in Profiles |-> None]
  /\ messages = {}
  /\ reqs = [r \in Reqs |-> IdleReq]
  /\ out = [r \in Reqs |-> <<>>]
  /\ pushes = [r \in Reqs |-> <<>>]
  /\ tok = IdleTok
  /\ edges = {}
  /\ followingCount = [p \in Profiles |-> 0]
  /\ followersCount = [p \in Profiles |-> 0]
  /\ calls = [c \in Calls |-> IdleCall]
  /\ fout = [c \in Calls |-> <<>>]
  /\ readIds = {}
  /\ mark = IdleMark
  /\ mout = <<>>
  /\ boot = [pc |-> "starting", parse |-> "initialized"]

\* ------------------------------------------------------------- startup
\* the server accepts connections and requests
Listening == boot.pc = "listening"

\* what the runtime does with the rejection of the startup function's
\* promise when nothing catches it: it ends the process with exit code 1, or
\* (unhandled-rejections mode "warn") it prints a warning and goes on
UnhandledOutcomes == {"exited", "warned"}

\* (async () => { await parseServer.start(); app.use("/parse", ...);
\*   server.listen(PORT) })(): the await settles; ok = FALSE: start rejects
StartServer(ok, how) ==
  /\ boot.pc = "starting"
  /\ boot' = IF ok THEN [pc |-> "listening", parse |-> "started"]
             ELSE [pc |-> IF HasStartCatch(variant) THEN "exited" ELSE how,
                   parse |-> "failed"]
  /\ UNCHANGED <<variant, presenceVars, storeVars, relayVars, tok,
                 socialVars, readVars>>

\* ---------------------------------------------------------- connections
\* io.on("connection"): socket ids are handed out once each
ConnectAnnounces(s) ==
  /\ Listening
  /\ conn[s] = "idle"
  /\ \A t \in Sockets : t < s => conn[t] # "idle"
  /\ conn' = [conn EXCEPT ![s] = "open"]
  /\ onlineUsers' = MapSet(onlineUsers, EmptyId, s)
  /\ UNCHANGED <<variant, boot, socialVars, readVars, joins, joinHist, joinAck,
                 storeVars, relayVars, tok>>

Connect(s) ==
  /\ Listening
  /\ conn[s] = "idle"
  /\ \A t \in Sockets : t < s => conn[t] # "idle"
  /\ conn' = [conn EXCEPT ![s] = "open"]
  /\ UNCHANGED <<variant, boot, socialVars, readVars, onlineUsers, joins, joinHist,
                 joinAck, storeVars, relayVars, tok>>

\* socket.on("join"): if (!auth0Id) return;  (index_c only)
\*   onlineUsers.set(auth0Id, socket.id); socket.emit("joined", {success})
JoinIgnored(v, x) == JoinGuard(v) /\ x = EmptyId

\* socket.emit("joined", { success: true }), absent from index.ts:62-64
JoinedEvents(v, s) == IF JoinAcks(v) THEN <<Ev("joined", s, 0, "")>> ELSE <<>>

Join(s, x) ==
  /\ conn[s] = "open"
  /\ joins < MaxJoins
  /\ joins' = joins + 1
  /\ IF JoinIgnored(variant, x)
     THEN /\ joinAck' = <<>>
          /\ UNCHANGED <<onlineUsers, joinHist>>
     ELSE /\ onlineUsers' = MapSet(onlineUsers, x, s)
          /\ joinHist' = [joinHist EXCEPT ![x] =
                            [sock |-> s, prev |-> MapGet(onlineUsers, x)]]
          /\ joinAck' = JoinedEvents(variant, s)
  /\ UNCHANGED <<variant, boot, socialVars, readVars,
                 conn, storeVars, relayVars, tok>>

\* socket.on("disconnect")
Disconnect(s) ==
  /\ conn[s] = "open"
  /\ conn' = [conn EXCEPT ![s] = "closed"]
  /\ onlineUsers' = IF BreaksAfterFirst(variant)
                    THEN DeleteFirst(onlineUsers, s)
                    ELSE DeleteAll(onlineUsers, s)
  /\ UNCHANGED <<variant, boot, socialVars, readVars, joins, joinHist, joinAck,
                 storeVars, relayVars, tok>>

\* ---------------------------------------------------- socket.on("sendMessage")
\* socket.emit / io.to(...).emit of the events evs by invocation r
Emit(r, evs) == out' = [out EXCEPT ![r] = out[r] \o evs]

\* the handler is invoked and runs to its first await
SendMessage(s, from, to) ==
  /\ conn[s] = "open"
  /\ NextReq <= MaxReq
  /\ reqs' = [reqs EXCEPT ![NextReq] =
       [IdleReq EXCEPT !.pc = IF HasReceiverLookup(variant)
                               THEN "receiver" ELSE "save",
                       !.sock = s, !.senderId = from, !.receiverId = to,
                       !.afterInvalid = \E q \in Reqs :
                          /\ reqs[q].pc = "done"
                          /\ reqs[q].receiverId = to
                          /\ reqs[q].fcmErr = "invalid"]]
  /\ UNCHANGED <<variant, boot, socialVars, readVars,
                 presenceVars, storeVars, out, pushes, tok>>

\* const receiver = await receiverQuery.first(); if (!receiver) return emit
\* ok = FALSE: the store call rejects
ReceiverLookup(r, ok) ==
  /\ reqs[r].pc = "receiver"
  /\ IF ~ok
     THEN /\ reqs' = [reqs EXCEPT ![r].pc = "done", ![r].err = "receiver"]
          /\ Emit(r, CatchEvents(variant, reqs[r].sock))
     ELSE IF reqs[r].receiverId \notin Profiles
     THEN /\ reqs' = [reqs EXCEPT ![r].pc = "done"]
          /\ Emit(r, <<Ev("sendError", reqs[r].sock, 0, "User not found")>>)
     ELSE /\ reqs' = [reqs EXCEPT
                ![r].pc = IF HasSenderLookup(variant) THEN "sender" ELSE "save",
                ![r].receiver = fcmToken[reqs[r].receiverId],
                ![r].histAtLookup = tokenHist[reqs[r].receiverId]]
          /\ UNCHANGED out
  /\ UNCHANGED <<variant, boot, socialVars, readVars,
                 presenceVars, storeVars, pushes, tok>>

\* const sender = await senderQuery.first()
SenderLookup(r, ok) ==
  /\ reqs[r].pc = "sender"
  /\ IF ok
     THEN /\ reqs' = [reqs EXCEPT ![r].pc = "save"]
          /\ UNCHANGED out
     ELSE /\ reqs' = [reqs EXCEPT ![r].pc = "done", ![r].err = "sender"]
          /\ Emit(r, CatchEvents(variant, reqs[r].sock))
  /\ UNCHANGED <<variant, boot, socialVars, readVars,
                 presenceVars, storeVars, pushes, tok>>

\* the store's side of message.save(): the record is created, or the call
\* rejects and the handler's catch runs
NewObjectIdReused ==
  IF messages = {} THEN 1 ELSE Cardinality(messages)

NewObjectId == Cardinality(messages) + 1

SaveMessageSwallow(r, ok) ==
  /\ reqs[r].pc = "save"
  /\ IF ok
     THEN /\ messages' = messages \cup
               {[objectId |-> NewObjectId, senderId |-> reqs[r].senderId,
                 receiverId |-> reqs[r].receiverId, req |-> r]}
          /\ reqs' = [reqs EXCEPT ![r].pc = "saved", ![r].objectId = NewObjectId]
     ELSE /\ reqs' = [reqs EXCEPT ![r].pc = "saved", ![r].err = "save"]
          /\ UNCHANGED messages
  /\ UNCHANGED <<variant, boot, socialVars, readVars,
                 presenceVars, fcmToken, tokenHist, out, pushes, tok>>

SaveMessage(r, ok) ==
  /\ reqs[r].pc = "save"
  /\ IF ok
     THEN /\ messages' = messages \cup
               {[objectId |-> NewObjectId, senderId |-> reqs[r].senderId,
                 receiverId |-> reqs[r].receiverId, req |-> r]}
          /\ reqs' = [reqs EXCEPT ![r].pc = "saved", ![r].objectId = NewObjectId]
          /\ UNCHANGED out
     ELSE /\ reqs' = [reqs EXCEPT ![r].pc = "done", ![r].err = "save"]
          /\ Emit(r, CatchEvents(variant, reqs[r].sock))
          /\ UNCHANGED messages
  /\ UNCHANGED <<variant, boot, socialVars, readVars,
                 presenceVars, fcmToken, tokenHist, pushes, tok>>

\* the payload's objectId: saved.id, absent from the dist build's msgData
Payload(v, oid) == IF PayloadHasObjectId(v) THEN oid ELSE 0

\* if (receiverSocketId) io.to(receiverSocketId).emit("newMessage", payload)
\*   (index.ts:294-297 adds io.to(receiverSocketId).emit("refreshInbox"))
NewMessageToSender(v, receiverSocketId, oid) ==
  <<Ev("newMessage", SenderSock, Payload(v, oid), "")>>

NewMessageEvents(v, receiverSocketId, oid) ==
  IF receiverSocketId # NoSock
  THEN <<Ev("newMessage", receiverSocketId, Payload(v, oid), "")>> \o
       (IF RefreshesInbox(v)
        THEN <<Ev("refreshInbox", receiverSocketId, 0, "")>> ELSE <<>>)
  ELSE <<>>

\* const senderSocketId = onlineUsers.get(data.senderId);
\* if (senderSocketId) { emit messageSent, refreshInbox }  (index.ts:300-304)
SenderEchoEvents(v, senderSocketId, oid) ==
  IF RefreshesInbox(v) /\ senderSocketId # NoSock
  THEN <<Ev("messageSent", senderSocketId, Payload(v, oid), ""),
         Ev("refreshInbox", senderSocketId, 0, "")>>
  ELSE <<>>

\* socket.emit("messageSent", payload)
MessageSent(v, s, oid) == <<Ev("messageSent", s, Payload(v, oid), "")>>

\* const fcmToken = receiver.get("fcmToken"); if (fcmToken) { ...send }
PushWantedOnline(v, token, receiverSocketId) ==
  HasFcm(v) /\ token # None /\ receiverSocketId # NoSock

PushWanted(v, token, receiverSocketId) == HasFcm(v) /\ token # None

\* the handler resumes after the save: payload, live delivery, then either
\* the Notifier call (next await) or the confirmation to the sender
Deliver(r) ==
  /\ reqs[r].pc = "saved"
  /\ LET rs == MapGet(onlineUsers, reqs[r].receiverId)
         nm == NewMessageEvents(variant, rs, reqs[r].objectId)
         ot == /\ rs # NoSock
               /\ \E q \in Reqs :
                    /\ q > r /\ reqs[q].sock = reqs[r].sock
                    /\ reqs[q].receiverId = reqs[r].receiverId
                    /\ \E i \in DOMAIN out[q] :
                         out[q][i].ev = "newMessage" /\ out[q][i].to = rs
     IN IF PushWanted(variant, reqs[r].receiver, rs)
        THEN /\ reqs' = [reqs EXCEPT ![r].pc = "fcm",
                                     ![r].receiverSocketId = rs,
                                     ![r].overtaken = ot]
             /\ pushes' = [pushes EXCEPT ![r] = Append(@, reqs[r].receiver)]
             /\ Emit(r, nm)
        ELSE /\ reqs' = [reqs EXCEPT ![r].pc = "done",
                                     ![r].receiverSocketId = rs,
                                     ![r].overtaken = ot]
             /\ Emit(r, nm \o
                        SenderEchoEvents(variant,
                          MapGet(onlineUsers, reqs[r].senderId),
                          reqs[r].objectId) \o
                        MessageSent(variant, reqs[r].sock, reqs[r].objectId))
             /\ UNCHANGED pushes
  /\ UNCHANGED <<variant, boot, socialVars, readVars, presenceVars, storeVars, tok>>

\* await admin.messaging().send(...) settles: "ok", or it throws with code
\* registration-token-not-registered ("invalid") or anything else ("other")
FcmOutcomes == {"ok", "invalid", "other"}

\* if (fcmErr.code === "messaging/registration-token-not-registered")
ClearsTokenOnAnyError(code) == code # "ok"

ClearsToken(code) == code = "invalid"

FcmSettled(r, code) ==
  /\ reqs[r].pc = "fcm"
  /\ IF ClearsToken(code)
     THEN /\ reqs' = [reqs EXCEPT ![r].pc = "clear", ![r].fcmErr = code]
          /\ UNCHANGED out
     ELSE /\ reqs' = [reqs EXCEPT ![r].pc = "done", ![r].fcmErr = code]
          /\ Emit(r, MessageSent(variant, reqs[r].sock, reqs[r].objectId))
  /\ UNCHANGED <<variant, boot, socialVars, readVars,
                 presenceVars, storeVars, pushes, tok>>

\* receiver.unset("fcmToken"); await receiver.save(): the save sends the
\* Delete of the one dirty field, whatever the stored value is by then
UnsetNothing(tokens, id) == tokens

Unset(tokens, id) == [tokens EXCEPT ![id] = None]

ClearToken(r, ok) ==
  /\ reqs[r].pc = "clear"
  /\ IF ok
     THEN /\ fcmToken' = Unset(fcmToken, reqs[r].receiverId)
          /\ tokenHist' = [tokenHist EXCEPT ![reqs[r].receiverId] = "cleared"]
          /\ reqs' = [reqs EXCEPT ![r].pc = "done"]
          /\ Emit(r, MessageSent(variant, reqs[r].sock, reqs[r].objectId))
     ELSE /\ reqs' = [reqs EXCEPT ![r].pc = "done", ![r].err = "clear"]
          /\ Emit(r, CatchEvents(variant, reqs[r].sock))
          /\ UNCHANGED <<fcmToken, tokenHist>>
  /\ UNCHANGED <<variant, boot, socialVars, readVars,
                 presenceVars, messages, pushes, tok>>

\* ------------------------------------- Parse.Cloud.define("saveFcmToken")
SaveFcmToken(u, t) ==
  /\ HasSaveFcmToken(variant)
  /\ Listening
  /\ tok.pc = "idle"
  /\ tok' = [IdleTok EXCEPT !.pc = "query", !.userId = u, !.fcmToken = t]
  /\ UNCHANGED <<variant, boot, socialVars, readVars,
                 presenceVars, storeVars, relayVars>>

\* const user = await query.first(); if (!user) throw "User not found"
TokQuery(ok) ==
  /\ tok.pc = "query"
  /\ tok' = [tok EXCEPT !.pc = IF ok /\ tok.userId \in Profiles
                               THEN "save" ELSE "done"]
  /\ UNCHANGED <<variant, boot, socialVars, readVars,
                 presenceVars, storeVars, relayVars>>

\* user.set("fcmToken", fcmToken); await user.save()
TokSave(ok) ==
  /\ tok.pc = "save"
  /\ tok' = [tok EXCEPT !.pc = "done", !.stored = ok]
  /\ IF ok
     THEN /\ fcmToken' = [fcmToken EXCEPT ![tok.userId] = tok.fcmToken]
          /\ tokenHist' = [tokenHist EXCEPT ![tok.userId] = None]
     ELSE UNCHANGED <<fcmToken, tokenHist>>
  /\ UNCHANGED <<variant, boot, socialVars, readVars,
                 presenceVars, messages, relayVars>>

\* ------------------------------------------- followUser / unfollowUser
StartedCalls == {c \in Calls : calls[c].pc # "idle"}
NextCall == Cardinality(StartedCalls) + 1
CallDone(c) == calls[c].pc = "done"

\* the _Follow (Vibe) records of one ordered pair
EdgesOf(es, from, to) == {e \in es : e.from = from /\ e.to = to}

\* a counter field that was never written reads as 0
CounterOf(counts, id) == IF id \in Profiles THEN counts[id] ELSE 0

\* what each entry point reports
Success(v, op) ==
  IF v = "part_002" THEN (IF op = "follow" THEN "vibed" ELSE "unvibed")
  ELSE "success"
SelfFollow == "Cannot follow self"
AlreadyFollowing(v) ==
  IF v = "part_002" THEN "already_vibed" ELSE "Already following"
NotFollowing(v) ==
  IF v = "part_002" THEN "not_vibed"
  ELSE IF v = "part_005" THEN "Not following" ELSE "success"
UserNotFound == "User not found"
MissingIds == "Missing IDs"
StoreError == "store"
ObjectNotFound == "Object not found"

\* the event loop's view of a new invocation
NewCall(op, s, from, to) ==
  [IdleCall EXCEPT !.op = op,
                   !.sock = IF SocketFollow(variant) THEN s ELSE NoSock,
                   !.from = from, !.to = to,
                   !.seq = \A c \in StartedCalls : CallDone(c),
                   !.pre = [following |-> CounterOf(followingCount, from),
                            followers |-> CounterOf(followersCount, to),
                            edges |-> Cardinality(EdgesOf(edges, from, to))]]

FollowEmit(c, evs) == fout' = [fout EXCEPT ![c] = fout[c] \o evs]

\* catch (err) { socket.emit("followError", { error: err.message }) }
FollowErrorSilent(v, s, msg) == <<>>

FollowErrorEvents(v, s, msg) ==
  IF SocketFollow(v) THEN <<Ev("followError", s, 0, msg)>> ELSE <<>>

\* if (fromSocket) { emit okEv, followUpdate }; if (toSocket) emit followUpdate
FollowEvents(v, m, from, to, okEv) ==
  IF SocketFollow(v)
  THEN (IF MapGet(m, from) # NoSock
        THEN <<Ev(okEv, MapGet(m, from), 0, ""),
               Ev("followUpdate", MapGet(m, from), 0, "")>>
        ELSE <<>>) \o
       (IF MapGet(m, to) # NoSock
        THEN <<Ev("followUpdate", MapGet(m, to), 0, "")>>
        ELSE <<>>)
  ELSE <<>>

\* the invocation c ends by throwing msg
Throw(c, rec, msg) ==
  /\ calls' = [calls EXCEPT ![c] = [rec EXCEPT !.pc = "done", !.result = msg]]
  /\ FollowEmit(c, FollowErrorEvents(variant, rec.sock, msg))

\* the handler is invoked and runs to its first await
FollowUser(s, from, to) ==
  /\ variant \in FollowVariants
  /\ Listening
  /\ NextCall <= CallBound(variant)
  /\ SocketFollow(variant) => conn[s] = "open"
  /\ LET rec == NewCall("follow", s, from, to)
     IN IF HasIdCheck(variant) /\ (from = EmptyId \/ to = EmptyId)
        THEN Throw(NextCall, rec, MissingIds)
        ELSE IF HasSelfCheck(variant) /\ from = to
        THEN Throw(NextCall, rec, SelfFollow)
        ELSE /\ calls' = [calls EXCEPT ![NextCall] =
                  [rec EXCEPT !.pc = IF HasProfileLookup(variant)
                                     THEN "profiles"
                                     ELSE IF HasExistsCheck(variant)
                                     THEN "find" ELSE "save"]]
             /\ UNCHANGED fout
  /\ UNCHANGED <<variant, boot, presenceVars, storeVars, relayVars, tok, readVars,
                 edges, followingCount, followersCount>>

UnfollowUser(s, from, to) ==
  /\ variant \in FollowVariants
  /\ Listening
  /\ NextCall <= CallBound(variant)
  /\ SocketFollow(variant) => conn[s] = "open"
  /\ LET rec == NewCall("unfollow", s, from, to)
     IN IF HasIdCheck(variant) /\ (from = EmptyId \/ to = EmptyId)
        THEN Throw(NextCall, rec, MissingIds)
        ELSE /\ calls' = [calls EXCEPT ![NextCall] =
                  [rec EXCEPT !.pc = IF HasProfileLookup(variant)
                                     THEN "profiles" ELSE "find"]]
             /\ UNCHANGED fout
  /\ UNCHANGED <<variant, boot, presenceVars, storeVars, relayVars, tok, readVars,
                 edges, followingCount, followersCount>>

\* const [me, target] = await Promise.all([...first(), ...first()]);
\* if (!me || !target) throw "User not found"
LookupProfiles(c, ok) ==
  /\ calls[c].pc = "profiles"
  /\ IF ~ok
     THEN Throw(c, [calls[c] EXCEPT !.rejected = TRUE], StoreError)
     ELSE IF calls[c].from \notin Profiles \/ calls[c].to \notin Profiles
     THEN Throw(c, calls[c], UserNotFound)
     ELSE /\ calls' = [calls EXCEPT ![c].pc =
                 IF calls[c].op = "follow" /\ ~HasExistsCheck(variant)
                 THEN "save" ELSE "find"]
          /\ UNCHANGED fout
  /\ UNCHANGED <<variant, boot, presenceVars, storeVars, relayVars, tok, readVars,
                 edges, followingCount, followersCount>>

\* const exist = await new Parse.Query("_Follow")...first(): one of the
\* pair's records, whichever the store returns first, or none
FindNothing(c, ok) ==
  /\ calls[c].pc = "find"
  /\ IF ~ok
     THEN Throw(c, [calls[c] EXCEPT !.rejected = TRUE], StoreError)
     ELSE IF calls[c].op = "follow"
     THEN /\ calls' = [calls EXCEPT ![c].pc = "save"]
          /\ UNCHANGED fout
     ELSE IF NotFollowing(variant) = Success(variant, "unfollow")
     THEN /\ calls' = [calls EXCEPT ![c].pc = "done",
                                    ![c].result = NotFollowing(variant)]
          /\ FollowEmit(c, FollowEvents(variant, onlineUsers, calls[c].from,
                                        calls[c].to, "unfollowSuccess"))
     ELSE /\ calls' = [calls EXCEPT ![c].pc = "done",
                                    ![c].result = NotFollowing(variant)]
          /\ UNCHANGED fout
  /\ UNCHANGED <<variant, boot, presenceVars, storeVars, relayVars, tok, readVars,
                 edges, followingCount, followersCount>>

FindEdge(c, ok) ==
  /\ calls[c].pc = "find"
  /\ LET hits == EdgesOf(edges, calls[c].from, calls[c].to)
     IN IF ~ok
        THEN Throw(c, [calls[c] EXCEPT !.rejected = TRUE], StoreError)
        ELSE IF hits # {} /\ calls[c].op = "follow"
        THEN \E e \in hits :
               Throw(c, [calls[c] EXCEPT !.found = e.by],
                     AlreadyFollowing(variant))
        ELSE IF hits # {}
        THEN /\ \E e \in hits :
                  calls' = [calls EXCEPT ![c].found = e.by,
                              ![c].pc = IF HasCounters(variant)
                                        THEN "counters" ELSE "destroy"]
             /\ UNCHANGED fout
        ELSE IF calls[c].op = "follow"
        THEN /\ calls' = [calls EXCEPT ![c].pc = "save"]
             /\ UNCHANGED fout
        ELSE IF NotFollowing(variant) = Success(variant, "unfollow")
        THEN \* index.ts:596: if (obj) await obj.destroy(); the handler
             \* goes on to the success events
             /\ calls' = [calls EXCEPT ![c].pc = "done",
                                       ![c].result = NotFollowing(variant)]
             /\ FollowEmit(c, FollowEvents(variant, onlineUsers,
                             calls[c].from, calls[c].to, "unfollowSuccess"))
        ELSE /\ calls' = [calls EXCEPT ![c].pc = "done",
                                       ![c].result = NotFollowing(variant)]
             /\ UNCHANGED fout
  /\ UNCHANGED <<variant, boot, presenceVars, storeVars, relayVars, tok, readVars,
                 edges, followingCount, followersCount>>

\* me.increment(field, d): the store adds d to the stored value
IncrementUpOnly(counts, id, d) ==
  [counts EXCEPT ![id] = IF d < 0 THEN @ ELSE @ + d]

Increment(counts, id, d) == [counts EXCEPT ![id] = @ + d]

\* the objects follow saves: f alone, or saveAll([f, me, target])
FollowWrites(v) ==
  IF HasCounters(v) THEN {"edge", "following", "followers"} ELSE {"edge"}

\* await Parse.Object.saveAll([f, me, target]) / await f.save(): a batch is
\* not a transaction, every object of it is written or rejected on its own
\* (fails); the unique index rejects a second record of the pair
SaveFollow(c, fails) ==
  /\ calls[c].pc = "save"
  /\ fails \subseteq FollowWrites(variant)
  /\ LET dup == /\ HasUniqueIndex(variant)
                /\ EdgesOf(edges, calls[c].from, calls[c].to) # {}
         lost == fails \cup (IF dup THEN {"edge"} ELSE {})
         written == FollowWrites(variant) \ lost
     IN /\ edges' = IF "edge" \in written
                    THEN edges \cup {[from |-> calls[c].from,
                                      to |-> calls[c].to, by |-> c]}
                    ELSE edges
        /\ followingCount' = IF "following" \in written
                             THEN Increment(followingCount, calls[c].from, 1)
                             ELSE followingCount
        /\ followersCount' = IF "followers" \in written
                             THEN Increment(followersCount, calls[c].to, 1)
                             ELSE followersCount
        /\ IF lost = {}
           THEN /\ calls' = [calls EXCEPT ![c].pc = "done",
                               ![c].wrote = written,
                               ![c].result = Success(variant, "follow")]
                /\ FollowEmit(c, FollowEvents(variant, onlineUsers,
                                calls[c].from, calls[c].to, "followSuccess"))
           ELSE IF variant = "part_002" /\ fails = {}
           THEN \* if (err.code === 137) res.json({ action: "already_vibed" })
                /\ calls' = [calls EXCEPT ![c].pc = "done",
                               ![c].wrote = written,
                               ![c].result = AlreadyFollowing(variant)]
                /\ UNCHANGED fout
           ELSE Throw(c, [calls[c] EXCEPT !.wrote = written,
                                          !.rejected = fails # {}],
                      StoreError)
  /\ UNCHANGED <<variant, boot, presenceVars, storeVars, relayVars, tok, readVars>>

\* me.increment("followingCount", -1); target.increment("followersCount", -1);
\* await Parse.Object.saveAll([me, target])
SaveCounters(c, fails) ==
  /\ calls[c].pc = "counters"
  /\ fails \subseteq {"following", "followers"}
  /\ LET written == {"following", "followers"} \ fails
     IN /\ followingCount' = IF "following" \in written
                             THEN Increment(followingCount, calls[c].from, -1)
                             ELSE followingCount
        /\ followersCount' = IF "followers" \in written
                             THEN Increment(followersCount, calls[c].to, -1)
                             ELSE followersCount
        /\ IF fails = {}
           THEN /\ calls' = [calls EXCEPT ![c].pc = "destroy",
                                          ![c].wrote = written]
                /\ UNCHANGED fout
           ELSE Throw(c, [calls[c] EXCEPT !.wrote = written,
                                          !.rejected = TRUE], StoreError)
  /\ UNCHANGED <<variant, boot, presenceVars, storeVars, relayVars, tok, readVars,
                 edges>>

\* await follow.destroy(): rejects when the record is gone already
DestroyEdge(c, ok) ==
  /\ calls[c].pc = "destroy"
  /\ LET here == {e \in edges : e.by = calls[c].found}
     IN IF ~ok
        THEN /\ Throw(c, [calls[c] EXCEPT !.rejected = TRUE], StoreError)
             /\ UNCHANGED edges
        ELSE IF here = {}
        THEN /\ Throw(c, calls[c], ObjectNotFound)
             /\ UNCHANGED edges
        ELSE /\ edges' = edges \ here
             /\ calls' = [calls EXCEPT ![c].pc = "done",
                            ![c].wrote = calls[c].wrote \cup {"edge"},
                            ![c].result = Success(variant, "unfollow")]
             /\ FollowEmit(c, FollowEvents(variant, onlineUsers,
                             calls[c].from, calls[c].to, "unfollowSuccess"))
  /\ UNCHANGED <<variant, boot, presenceVars, storeVars, relayVars, tok, readVars,
                 followingCount, followersCount>>

\* ------------------------------------------------ socket.on("markAsRead")
\* [...onlineUsers.entries()].find(([, sid]) => sid === socket.id)?.[0]
FirstIdOfAny(m, s) == IF m = <<>> THEN EmptyId ELSE m[1].id

FirstIdOf(m, s) ==
  IF \E i \in DOMAIN m : m[i].sid = s
  THEN m[CHOOSE i \in DOMAIN m :
            /\ m[i].sid = s
            /\ \A j \in DOMAIN m : m[j].sid = s => i <= j].id
  ELSE EmptyId

\* if (!auth0Id) return;
MarkAsRead(s, senderId) ==
  /\ HasMarkAsRead(variant)
  /\ conn[s] = "open"
  /\ mark.pc = "idle"
  /\ mark' = [IdleMark EXCEPT
                !.pc = IF FirstIdOf(onlineUsers, s) = EmptyId
                       THEN "done" ELSE "find",
                !.sock = s, !.senderId = senderId,
                !.auth0Id = FirstIdOf(onlineUsers, s)]
  /\ UNCHANGED <<variant, boot, presenceVars, storeVars, relayVars, tok, socialVars,
                 readIds, mout>>

\* const unread = await query.find(): senderId, receiverId, read == false
MarkFind(ok) ==
  /\ mark.pc = "find"
  /\ mark' = IF ok
             THEN [mark EXCEPT !.pc = "save",
                     !.unread = {m.objectId : m \in
                        {n \in messages : /\ n.senderId = mark.senderId
                                          /\ n.receiverId = mark.auth0Id
                                          /\ n.objectId \notin readIds}}]
             ELSE [mark EXCEPT !.pc = "done"]
  /\ UNCHANGED <<variant, boot, presenceVars, storeVars, relayVars, tok, socialVars,
                 readIds, mout>>

\* for (const m of unread) m.set("read", true); await saveAll(unread);
\* if (senderSocketId) io.to(senderSocketId).emit("messagesRead", ...)
MarkSave(saved) ==
  /\ mark.pc = "save"
  /\ saved \subseteq mark.unread
  /\ readIds' = readIds \cup saved
  /\ mark' = [mark EXCEPT !.pc = "done"]
  /\ mout' = IF saved = mark.unread /\ MapGet(onlineUsers, mark.senderId) # NoSock
             THEN <<Ev("messagesRead", MapGet(onlineUsers, mark.senderId),
                       0, "")>>
             ELSE mout
  /\ UNCHANGED <<variant, boot, presenceVars, storeVars, relayVars, tok, socialVars>>

\* ------------------------------------------------------- specifications
\* the presence directory alone
NextPresence ==
  \/ \E ok \in BOOLEAN, how \in UnhandledOutcomes : StartServer(ok, how)
  \/ \E s \in Sockets : Connect(s)
  \/ \E s \in Sockets, x \in JoinIds : Join(s, x)
  \/ \E s \in Sockets : Disconnect(s)

SpecPresence == Init /\ [][NextPresence]_vars

\* the message relay: connection SenderSock sends, the other connections
\* may announce themselves as the recipient
Next ==
  \/ \E ok \in BOOLEAN, how \in UnhandledOutcomes : StartServer(ok, how)
  \/ \E s \in Sockets : Connect(s)
  \/ \E s \in Sockets \ {SenderSock}, x \in RelayJoinIds :
        joins < MaxRelayJoins /\ Join(s, x)
  \/ \E s \in Sockets : Disconnect(s)
  \/ \E from \in SenderIds, to \in ReceiverIds : SendMessage(SenderSock, from, to)
  \/ \E r \in Reqs, ok \in BOOLEAN : ReceiverLookup(r, ok)
  \/ \E r \in Reqs, ok \in BOOLEAN : SenderLookup(r, ok)
  \/ \E r \in Reqs, ok \in BOOLEAN : SaveMessage(r, ok)
  \/ \E r \in Reqs : Deliver(r)
  \/ \E r \in Reqs, code \in FcmOutcomes : FcmSettled(r, code)
  \/ \E r \in Reqs, ok \in BOOLEAN : ClearToken(r, ok)
  \/ \E u \in TokUsers, t \in NewTokens : SaveFcmToken(u, t)
  \/ \E ok \in BOOLEAN : TokQuery(ok)
  \/ \E ok \in BOOLEAN : TokSave(ok)

Spec == Init /\ [][Next]_vars

\* the social graph relay next to the presence directory, in the variants
\* that have a follow entry point; connection SenderSock is the one that
\* sends the follow events. The cloud functions and the /vibe routes neither
\* read nor write the connections and the directory, so the presence events
\* are interleaved with the socket events only.
InitFollow == Init /\ variant \in FollowVariants

NextFollow ==
  \/ \E ok \in BOOLEAN, how \in UnhandledOutcomes : StartServer(ok, how)
  \/ \E s \in Sockets : SocketFollow(variant) /\ Connect(s)
  \/ \E s \in Sockets, x \in FollowJoinIds :
        SocketFollow(variant) /\ joins < MaxRelayJoins /\ Join(s, x)
  \/ \E s \in Sockets : SocketFollow(variant) /\ Disconnect(s)
  \/ \E from \in FollowFrom, to \in FollowTo :
        FollowUser(SenderSock, from, to)
  \/ \E from \in FollowFrom, to \in UnfollowTo :
        UnfollowUser(SenderSock, from, to)
  \/ \E c \in Calls, ok \in BOOLEAN : LookupProfiles(c, ok)
  \/ \E c \in Calls, ok \in BOOLEAN : FindEdge(c, ok)
  \/ \E c \in Calls, fails \in SUBSET FollowWrites(variant) :
        SaveFollow(c, fails)
  \/ \E c \in Calls, fails \in SUBSET {"following", "followers"} :
        SaveCounters(c, fails)
  \/ \E c \in Calls, ok \in BOOLEAN : DestroyEdge(c, ok)

SpecFollow == InitFollow /\ [][NextFollow]_vars

\* the whole server: every handler of every variant, at most MaxOps handler
\* invocations in one behaviour
Invoked ==
  Cardinality(Started) + Cardinality(StartedCalls)
    + (IF tok.pc = "idle" THEN 0 ELSE 1) + (IF mark.pc = "idle" THEN 0 ELSE 1)

NextServer ==
  \/ \E ok \in BOOLEAN, how \in UnhandledOutcomes : StartServer(ok, how)
  \/ \E s \in Sockets : Connect(s)
  \/ \E s \in Sockets, x \in FollowJoinIds :
        joins < MaxRelayJoins /\ Join(s, x)
  \/ \E s \in Sockets : Disconnect(s)
  \/ \E from \in SenderIds, to \in ReceiverIds :
        Invoked < MaxOps /\ SendMessage(SenderSock, from, to)
  \/ \E r \in Reqs, ok \in BOOLEAN : ReceiverLookup(r, ok)
  \/ \E r \in Reqs, ok \in BOOLEAN : SenderLookup(r, ok)
  \/ \E r \in Reqs, ok \in BOOLEAN : SaveMessage(r, ok)
  \/ \E r \in Reqs : Deliver(r)
  \/ \E r \in Reqs, code \in FcmOutcomes : FcmSettled(r, code)
  \/ \E r \in Reqs, ok \in BOOLEAN : ClearToken(r, ok)
  \/ \E u \in TokUsers, t \in NewTokens :
        Invoked < MaxOps /\ SaveFcmToken(u, t)
  \/ \E ok \in BOOLEAN : TokQuery(ok)
  \/ \E ok \in BOOLEAN : TokSave(ok)
  \/ \E from \in FollowFrom, to \in FollowTo :
        Invoked < MaxOps /\ FollowUser(SenderSock, from, to)
  \/ \E from \in FollowFrom, to \in UnfollowTo :
        Invoked < MaxOps /\ UnfollowUser(SenderSock, from, to)
  \/ \E c \in Calls, ok \in BOOLEAN : LookupProfiles(c, ok)
  \/ \E c \in Calls, ok \in BOOLEAN : FindEdge(c, ok)
  \/ \E c \in Calls, fails \in SUBSET FollowWrites(variant) :
        SaveFollow(c, fails)
  \/ \E c \in Calls, fails \in SUBSET {"following", "followers"} :
        SaveCounters(c, fails)
  \/ \E c \in Calls, ok \in BOOLEAN : DestroyEdge(c, ok)
  \/ \E s \in Sockets, x \in ReadSenders :
        Invoked < MaxOps /\ MarkAsRead(s, x)
  \/ \E ok \in BOOLEAN : MarkFind(ok)
  \/ \E saved \in SUBSET mark.unread : MarkSave(saved)

SpecServer == Init /\ [][NextServer]_vars

\* the read receipts, in the variant that has markAsRead: connection
\* SenderSock sends, any connection may join as the sender or the recipient
\* and ask for its messages to be marked
InitRead == Init /\ HasMarkAsRead(variant)

NextRead ==
  \/ \E ok \in BOOLEAN, how \in UnhandledOutcomes : StartServer(ok, how)
  \/ \E s \in Sockets : Connect(s)
  \/ \E s \in Sockets, x \in FollowJoinIds :
        joins < MaxReadJoins /\ Join(s, x)
  \/ \E s \in Sockets : Disconnect(s)
  \/ \E from \in SenderIds, to \in ReceiverIds : SendMessage(SenderSock, from, to)
  \/ \E r \in Reqs, ok \in BOOLEAN : ReceiverLookup(r, ok)
  \/ \E r \in Reqs, ok \in BOOLEAN : SaveMessage(r, ok)
  \/ \E r \in Reqs : Deliver(r)
  \/ \E s \in Sockets, x \in ReadSenders : MarkAsRead(s, x)
  \/ \E ok \in BOOLEAN : MarkFind(ok)
  \/ \E saved \in SUBSET mark.unread : MarkSave(saved)

SpecRead == InitRead /\ [][NextRead]_vars

\* ------------------------------------------------------------- properties
HasEv(r, e) == \E i \in DOMAIN out[r] : out[r][i].ev = e
CountEv(r, e) == Cardinality({i \in DOMAIN out[r] : out[r][i].ev = e})
EvTo(r, e, s) == \E i \in DOMAIN out[r] : out[r][i].ev = e /\ out[r][i].to = s
MsgsOf(r) == {m \in messages : m.req = r}
Done(r) == reqs[r].pc = "done"

\* C1: once the Message save of a request has succeeded the sender's
\* connection gets messageSent and never sendError, whatever live delivery,
\* the Notifier call or the token-clearing write do.
C1_SavedThenConfirmed ==
  \A r \in Reqs :
    reqs[r].objectId # 0 =>
      /\ ~HasEv(r, "sendError")
      /\ Done(r) => EvTo(r, "messageSent", reqs[r].sock)

\* C2: a request whose receiverId matches no Profile (the lookup itself
\* returning) ends with exactly one sendError "User not found" to the
\* sender and nothing else: no Message record, no newMessage, no push.
C2_UnknownRecipientRejected ==
  \A r \in Reqs :
    (reqs[r].pc # "idle" /\ reqs[r].receiverId \notin Profiles
       /\ reqs[r].err = None) =>
      /\ MsgsOf(r) = {}
      /\ pushes[r] = <<>>
      /\ ~HasEv(r, "newMessage")
      /\ Done(r) =>
           out[r] = <<Ev("sendError", reqs[r].sock, 0, "User not found")>>

\* C3: the Notifier is invoked for a request only if the recipient had no
\* Presence Entry at the delivery step.
C3_PushOnlyWhenAbsent ==
  \A r \in Reqs : pushes[r] # <<>> => reqs[r].receiverSocketId = NoSock

\* the case of C4: a finished request of a Notifier variant, no store call
\* rejected, the fetched Profile carries a token, no Presence Entry at delivery
C4Case(r) ==
  /\ HasFcm(variant)
  /\ Done(r)
  /\ reqs[r].err = None
  /\ reqs[r].receiver # None
  /\ reqs[r].receiverSocketId = NoSock

\* C4: in the variants that have a Notifier, a request whose recipient
\* Profile carries a push token and who has no Presence Entry at the
\* delivery step, and none of whose store calls rejected, has created
\* exactly one Message record, invoked the Notifier exactly once with that
\* token, emitted no newMessage, and confirmed to the sender with
\* messageSent carrying the created record's objectId.
C4_OfflinePushOnce ==
  \A r \in Reqs :
    C4Case(r) =>
      /\ Cardinality(MsgsOf(r)) = 1
      /\ pushes[r] = <<reqs[r].receiver>>
      /\ ~HasEv(r, "newMessage")
      /\ CountEv(r, "messageSent") = 1
      /\ \E m \in MsgsOf(r) :
           Ev("messageSent", reqs[r].sock, m.objectId, "") \in
             {out[r][i] : i \in DOMAIN out[r]}

C4_Witness ==
  \E r \in Reqs : C4Case(r) /\ reqs[r].receiverId = "bob"
                            /\ pushes[r] = <<"T1">>

C6_FailureReported ==
  \A r \in Reqs :
    (Done(r) /\ reqs[r].err \in {"receiver", "save"}) =>
      EvTo(r, "sendError", reqs[r].sock)

\* C7: a request that sent sendError to the sender has emitted no newMessage.
C7_ErrorNeverDelivered ==
  \A r \in Reqs : HasEv(r, "sendError") => ~HasEv(r, "newMessage")

\* C8: the stages come in order. Nothing is emitted and no record exists
\* before the save; where the variant resolves the recipient, a record
\* exists only for a resolved recipient; newMessage and messageSent are
\* emitted only once the request's Message record exists; and when the
\* create rejected there is no record, no newMessage and no messageSent.
C8_StagesInOrder ==
  \A r \in Reqs :
    /\ reqs[r].pc \in {"idle", "receiver", "sender", "save"} =>
         (MsgsOf(r) = {} /\ out[r] = <<>>)
    /\ (HasReceiverLookup(variant) /\ MsgsOf(r) # {}) =>
         reqs[r].receiverId \in Profiles
    /\ (HasEv(r, "newMessage") \/ HasEv(r, "messageSent")) =>
         Cardinality(MsgsOf(r)) = 1
    /\ reqs[r].err = "save" =>
         (MsgsOf(r) = {} /\ ~HasEv(r, "newMessage")
                         /\ ~HasEv(r, "messageSent"))

C8_Witness ==
  \E r, q \in Reqs :
    /\ Done(r) /\ reqs[r].err = "save"
    /\ Done(q) /\ HasEv(q, "newMessage") /\ HasEv(q, "messageSent")

\* C9: last join wins. A join of identity x by connection s (not ignored by
\* the guard) leaves exactly one entry for x, and it resolves to s and no
\* longer to the connection it resolved to before.
C9_LastJoinWins ==
  [][\A s \in Sockets, x \in JoinIds :
       (Join(s, x) /\ ~JoinIgnored(variant, x)) =>
          /\ MapGet(onlineUsers', x) = s
          /\ CountOf(onlineUsers', x) = 1
          /\ MapGet(onlineUsers, x) # s =>
               MapGet(onlineUsers', x) # MapGet(onlineUsers, x)]_vars

\* join(x, c1) then join(x, c2) with c1 # c2 has happened and no disconnect
\* has removed the entry
C9_Witness ==
  \E x \in Ids :
    /\ joinHist[x].prev \notin {NoSock, joinHist[x].sock}
    /\ MapGet(onlineUsers, x) = joinHist[x].sock

\* C10: after join(x, c1), join(x, c2) and then the close of c2, the
\* directory has no entry for x.
C10_CloseRemovesEntry ==
  [][\A s \in Sockets, x \in JoinIds :
       (/\ Disconnect(s)
        /\ MapGet(onlineUsers, x) = s
        /\ joinHist[x].sock = s
        /\ joinHist[x].prev \notin {NoSock, s}) =>
          MapGet(onlineUsers', x) = NoSock]_vars

\* C11: no Presence Entry maps an identity to a closed connection: once a
\* connection's disconnect handler has run no identity resolves to it,
\* whatever joins came before, several identities on one connection included.
C11_NoClosedEntry ==
  \A i \in DOMAIN onlineUsers : conn[onlineUsers[i].sid] # "closed"

\* C12: the directory changes only on join and on disconnect. An entry's
\* value is always the connection that last joined under that identity (so
\* a connection that never joined is no entry's value), and every step that
\* changes the directory is a join or a disconnect: connecting and every
\* step of sendMessage, followUser, unfollowUser, markAsRead (and of the
\* cloud functions and routes) leave it as it was.
C12_DirectoryFrame ==
  /\ [](\A i \in DOMAIN onlineUsers :
          joinHist[onlineUsers[i].id].sock = onlineUsers[i].sid)
  /\ [][onlineUsers' # onlineUsers =>
          \/ \E s \in Sockets, x \in JoinIds : Join(s, x)
          \/ \E s \in Sockets : Disconnect(s)]_vars

\* a connection that never joined has sent a message to the end, a joined
\* one has marked it read, and the directory still holds the join's entry
C12_Witness ==
  /\ mark.pc = "done" /\ mark.unread # {} /\ readIds = mark.unread
  /\ onlineUsers # <<>>
  /\ \E r \in Reqs :
       /\ Done(r) /\ HasEv(r, "messageSent")
       /\ conn[reqs[r].sock] = "open"
       /\ \A i \in DOMAIN onlineUsers : onlineUsers[i].sid # reqs[r].sock

\* C13: every join with a non-empty identity emits joined to the calling
\* connection and nothing to any other connection.
C13_JoinAcknowledged ==
  [][\A s \in Sockets, x \in Ids :
       Join(s, x) => joinAck' = <<Ev("joined", s, 0, "")>>]_vars

\* C14: a join with the empty identity leaves the directory as it was, with
\* no entry keyed by the empty identity.
C14_EmptyJoinIgnored ==
  [][\A s \in Sockets :
       Join(s, EmptyId) => /\ onlineUsers' = onlineUsers
                           /\ ~MapHas(onlineUsers', EmptyId)]_vars

\* C15: the store holds at most one Follow Edge per ordered pair, whatever
\* the interleaving of the follow and unfollow invocations.
C15_OneEdgePerPair ==
  \A from \in FollowFrom, to \in FollowTo :
    Cardinality(EdgesOf(edges, from, to)) <= 1

\* C16: followersCount and followingCount of every Profile are >= 0,
\* whatever the interleaving of the follow and unfollow invocations.
C16_CountersNonNegative ==
  \A p \in Profiles : followingCount[p] >= 0 /\ followersCount[p] >= 0

\* two invocations for one pair A # B of Profiles, one after the other:
\* u is the invocation after c, each started when every earlier invocation
\* had finished, and none has started since
InSequence(c, u) ==
  /\ u = c + 1
  /\ calls[c].seq /\ calls[u].seq
  /\ NextCall = u + 1
  /\ calls[c].from = calls[u].from /\ calls[c].to = calls[u].to
  /\ calls[c].from # calls[c].to
  /\ calls[c].from \in Profiles /\ calls[c].to \in Profiles

\* the case of C17: a follow that succeeded, then a follow of the same pair
\* none of whose store calls rejected
C17Case(c, u) ==
  /\ InSequence(c, u)
  /\ calls[c].op = "follow" /\ calls[u].op = "follow"
  /\ calls[c].result = Success(variant, "follow")
  /\ ~calls[u].rejected

\* C17: when follow(A,B) is called twice in sequence (A # B, both with
\* Profiles, the first call succeeding, no store call of the second
\* rejecting), the second call creates no edge, writes nothing, leaves
\* followingCount(A) and followersCount(B) as they were when it started, and
\* reports AlreadyFollowing.
C17_SecondFollowRejected ==
  \A c, u \in Calls :
    C17Case(c, u) =>
      /\ \A e \in edges : e.by # u
      /\ calls[u].wrote = {}
      /\ followingCount[calls[u].from] = calls[u].pre.following
      /\ followersCount[calls[u].to] = calls[u].pre.followers
      /\ CallDone(u) => calls[u].result = AlreadyFollowing(variant)

C17_Witness ==
  \E c, u \in Calls :
    /\ C17Case(c, u) /\ CallDone(u)
    /\ calls[u].result = AlreadyFollowing(variant)
    /\ calls[u].pre.edges = 1

\* the case of C18: with no edge (A,B), a follow that succeeded, then an
\* unfollow of the same pair that succeeded
C18Case(c, u) ==
  /\ InSequence(c, u)
  /\ calls[c].op = "follow" /\ calls[u].op = "unfollow"
  /\ calls[c].pre.edges = 0
  /\ calls[c].result = Success(variant, "follow")
  /\ calls[u].result = Success(variant, "unfollow")

\* C18: with no edge (A,B), a successful follow(A,B) followed by a
\* successful unfollow(A,B) leaves no edge (A,B) and followingCount(A) and
\* followersCount(B) exactly as they were before the follow.
C18_RoundTrip ==
  \A c, u \in Calls :
    C18Case(c, u) =>
      /\ EdgesOf(edges, calls[c].from, calls[c].to) = {}
      /\ followingCount[calls[c].from] = calls[c].pre.following
      /\ followersCount[calls[c].to] = calls[c].pre.followers

\* the round trip has happened where the counters are kept, the edge
\* having existed in between
C18_Witness ==
  \E c, u \in Calls :
    /\ C18Case(c, u)
    /\ HasCounters(variant)
    /\ calls[u].pre.edges = 1
    /\ calls[u].pre.following = calls[c].pre.following + 1
    /\ calls[u].wrote = {"following", "followers", "edge"}

\* C19: a follow of A by A (no store call of it rejecting) creates no edge
\* and ends with the self-follow error, at every follow entry point.
C19_SelfFollowRejected ==
  \A c \in Calls :
    (/\ calls[c].op = "follow" /\ calls[c].from = calls[c].to
     /\ ~calls[c].rejected) =>
      /\ \A e \in edges : e.by # c
      /\ CallDone(c) => calls[c].result = SelfFollow

\* the store writes a successful invocation makes
AllWrites(v, op) ==
  IF HasCounters(v) THEN {"edge", "following", "followers"} ELSE {"edge"}

\* C20: a follow or unfollow invocation one of whose store calls failed has
\* applied either all of {edge change, followingCount change, followersCount
\* change} or none of them.
C20_AllOrNothing ==
  \A c \in Calls :
    (CallDone(c) /\ calls[c].rejected) =>
      calls[c].wrote \in {{}, AllWrites(variant, calls[c].op)}

\* the events an invocation has emitted
FEvTo(c, e, s) ==
  \E i \in DOMAIN fout[c] : fout[c][i].ev = e /\ fout[c][i].to = s
FHasEv(c, e) == \E i \in DOMAIN fout[c] : fout[c][i].ev = e

\* C21: a follow whose source or target identity has no Profile (A # B, no
\* store call of it rejecting) creates no edge, writes no counter and ends
\* with the profile-not-found error, at the followUser socket event as at
\* the cloud function.
C21_ProfileNotFound ==
  \A c \in Calls :
    (/\ calls[c].op = "follow" /\ calls[c].from # calls[c].to
     /\ (calls[c].from \notin Profiles \/ calls[c].to \notin Profiles)
     /\ ~calls[c].rejected) =>
      /\ \A e \in edges : e.by # c
      /\ calls[c].wrote = {}
      /\ CallDone(c) => calls[c].result = UserNotFound

\* C22: every followUser socket request that created an edge has emitted
\* followSuccess to the requesting connection, and the step that creates
\* the edge emits followUpdate to the connection the directory holds for
\* the target at that moment.
C22_FollowAcknowledged ==
  /\ [](\A c \in Calls :
          (/\ SocketFollow(variant) /\ calls[c].op = "follow"
           /\ CallDone(c) /\ "edge" \in calls[c].wrote) =>
            FEvTo(c, "followSuccess", calls[c].sock))
  /\ [][\A c \in Calls :
          (/\ SocketFollow(variant) /\ calls[c].pc = "save"
           /\ "edge" \in calls'[c].wrote
           /\ MapHas(onlineUsers, calls[c].to)) =>
            \E i \in DOMAIN fout'[c] :
              /\ fout'[c][i].ev = "followUpdate"
              /\ fout'[c][i].to = MapGet(onlineUsers, calls[c].to)]_vars

\* C23: an unfollow of a pair of Profiles whose query found no edge (no
\* store call of it rejecting) writes nothing, ends with the not-following
\* outcome and not with success, and emits neither unfollowSuccess nor
\* followUpdate to any connection.
C23_NotFollowing ==
  \A c \in Calls :
    (/\ calls[c].op = "unfollow" /\ CallDone(c) /\ ~calls[c].rejected
     /\ calls[c].from \in Profiles /\ calls[c].to \in Profiles
     /\ calls[c].found = 0) =>
      /\ calls[c].wrote = {}
      /\ calls[c].result = NotFollowing(variant)
      /\ calls[c].result # Success(variant, "unfollow")
      /\ ~FHasEv(c, "unfollowSuccess") /\ ~FHasEv(c, "followUpdate")

\* a followUser / unfollowUser socket request that ended in an error
SocketFailed(c) ==
  /\ SocketFollow(variant) /\ CallDone(c)
  /\ calls[c].result # Success(variant, calls[c].op)

\* C24: a followUser / unfollowUser socket request that fails has emitted
\* exactly one event, followError carrying the error, to the requesting
\* connection, and the step in which it fails changes neither the state of
\* any connection nor the directory.
C24_FollowErrorOnly ==
  /\ [](\A c \in Calls :
          SocketFailed(c) =>
            fout[c] = <<Ev("followError", calls[c].sock, 0, calls[c].result)>>)
  /\ [][\A c \in Calls :
          (~CallDone(c) /\ SocketFailed(c)') =>
            UNCHANGED <<conn, onlineUsers>>]_vars

\* a second followUser for an existing edge has failed on a connection that
\* is open and holds the source's Presence Entry
C24_Witness ==
  \E c \in Calls :
    /\ SocketFailed(c)
    /\ calls[c].result = AlreadyFollowing(variant)
    /\ conn[calls[c].sock] = "open"
    /\ MapGet(onlineUsers, calls[c].from) = calls[c].sock
    /\ FEvTo(c, "followError", calls[c].sock)

\* C29: whenever no follow / unfollow cloud-function call is in flight (and
\* no store call of any of them was made to fail), followingCount(A) is the
\* number of edges leaving A and followersCount(B) the number of edges
\* entering B, for every Profile and every interleaving of the calls.
C29_CountersMatchEdges ==
  (/\ HasCounters(variant)
   /\ \A c \in Calls : calls[c].pc \in {"idle", "done"} /\ ~calls[c].rejected) =>
    \A p \in Profiles :
      /\ followingCount[p] = Cardinality({e \in edges : e.from = p})
      /\ followersCount[p] = Cardinality({e \in edges : e.to = p})

\* C27: the step in which the Notifier's verdict arrives leaves every
\* Profile's token as it is and, unless the verdict is the invalid-token
\* error, ends the request with messageSent to the sender; a Profile's token
\* is removed only by the clearing write of a request whose verdict was the
\* invalid-token error.
C27_ClearOnlyWhenInvalid ==
  [][/\ \A r \in Reqs :
          (reqs[r].pc = "fcm" /\ reqs'[r].pc # "fcm") =>
            /\ fcmToken' = fcmToken
            /\ reqs'[r].fcmErr # "invalid" =>
                 /\ reqs'[r].pc = "done"
                 /\ out'[r] = out[r] \o MessageSent(variant, reqs[r].sock,
                                                    reqs[r].objectId)
     /\ \A p \in Profiles :
          (fcmToken[p] # None /\ fcmToken'[p] = None) =>
            \E r \in Reqs :
              /\ reqs[r].pc = "clear" /\ reqs'[r].pc = "done"
              /\ reqs[r].fcmErr = "invalid" /\ reqs[r].receiverId = p]_vars

\* a request has ended after another Notifier error: the token it pushed to
\* is still stored and the sender has messageSent
C27_Witness ==
  \E r \in Reqs :
    /\ Done(r) /\ reqs[r].fcmErr = "other"
    /\ reqs[r].receiver # None
    /\ fcmToken[reqs[r].receiverId] = reqs[r].receiver
    /\ EvTo(r, "messageSent", reqs[r].sock)

\* the terminal events of a request on the sender's connection
Terminals(r) ==
  {i \in DOMAIN out[r] : /\ out[r][i].ev \in {"messageSent", "sendError"}
                         /\ out[r][i].to = reqs[r].sock}

\* C30: every sendMessage request has produced at most one terminal event
\* (messageSent or sendError) on the sender's connection, also when the
\* sender's identity is in the directory and maps to that connection.
C30_OneTerminalEvent ==
  \A r \in Reqs : Cardinality(Terminals(r)) <= 1

\* C28: once saveFcmToken has stored a token and every sendMessage request
\* has finished, the Profile still holds that token unless the Notifier
\* reported that same token value invalid to one of the requests.
C28_StoredTokenSurvives ==
  (/\ tok.stored
   /\ \A r \in Reqs : reqs[r].pc \in {"idle", "done"}
   /\ ~\E r \in Reqs : /\ reqs[r].receiverId = tok.userId
                       /\ reqs[r].receiver = tok.fcmToken
                       /\ reqs[r].fcmErr = "invalid") =>
    fcmToken[tok.userId] = tok.fcmToken

\* C25: the relay keeps no delivery order. The execution the claim names is
\* reachable (C25_Witness): one connection issues two sendMessage requests
\* to one recipient and the recipient's connection is sent the newMessage
\* of the second before that of the first. Whenever that has happened the
\* two events are those of two different saved Messages with different
\* objectIds, the later request's first.
C25_InvertedDelivery ==
  \A r \in Reqs :
    reqs[r].overtaken =>
      /\ EvTo(r, "newMessage", reqs[r].receiverSocketId)
      /\ \E q \in Reqs :
           /\ q > r /\ reqs[q].sock = reqs[r].sock
           /\ reqs[q].receiverId = reqs[r].receiverId
           /\ EvTo(q, "newMessage", reqs[r].receiverSocketId)
           /\ MsgsOf(r) # {} /\ MsgsOf(q) # {}
           /\ reqs[q].objectId # reqs[r].objectId

\* m1 then m2 were issued by one connection and the recipient's connection
\* got m2's newMessage before m1's, in the plain relay of index.ts:523-551
C25_Witness ==
  /\ variant = "index_c"
  /\ reqs[1].overtaken /\ Done(1) /\ Done(2)
  /\ reqs[1].sock = reqs[2].sock
  /\ reqs[1].receiverSocketId = reqs[2].receiverSocketId
  /\ HasEv(1, "newMessage") /\ HasEv(2, "newMessage")

C31_CloseKeepsOthers ==
  [][\A s \in Sockets :
       (conn[s] = "open" /\ conn'[s] = "closed") =>
         \A x \in JoinIds :
           MapGet(onlineUsers, x) # s =>
             MapGet(onlineUsers', x) = MapGet(onlineUsers, x)]_vars

\* X was joined by c1, then by c2, c1 has closed and X resolves to c2
C31_Witness ==
  \E x \in JoinIds :
    /\ joinHist[x].prev # NoSock
    /\ joinHist[x].prev # joinHist[x].sock
    /\ conn[joinHist[x].prev] = "closed"
    /\ conn[joinHist[x].sock] = "open"
    /\ MapGet(onlineUsers, x) = joinHist[x].sock

FromTo(senderId, r) ==
  {m.objectId : m \in {n \in messages : /\ n.senderId = senderId
                                        /\ n.receiverId = r}}

\* C33: a markAsRead from a connection with no Presence Entry ends at once,
\* marks no Message and emits nothing. From a connection joined as R it
\* resolves R, marks only messages from senderId addressed to R, changes no
\* other Message, and emits nothing but messagesRead to the connection
\* senderId resolves to; when the whole write succeeded and senderId has a
\* Presence Entry it emits exactly that event.
C33_MarkAsReadFrame ==
  /\ []((mark.pc # "idle" /\ mark.auth0Id = EmptyId) =>
          mark.pc = "done" /\ readIds = {} /\ mout = <<>>)
  /\ [][/\ (mark.pc = "idle" /\ mark'.pc # "idle") =>
             /\ (\A i \in DOMAIN onlineUsers :
                   onlineUsers[i].sid # mark'.sock) => mark'.auth0Id = EmptyId
             /\ mark'.auth0Id # EmptyId =>
                  MapGet(onlineUsers, mark'.auth0Id) = mark'.sock
        /\ (mark.pc = "idle" \/ mark'.pc # "done" \/ mark.pc = "done") =>
             readIds' = readIds /\ mout' = mout
        /\ messages' # messages => mark' = mark
        /\ readIds \subseteq readIds'
        /\ (readIds' \ readIds) \subseteq FromTo(mark.senderId, mark.auth0Id)
        /\ \A i \in DOMAIN mout' :
             i > Len(mout) =>
               /\ mout'[i].ev = "messagesRead"
               /\ MapHas(onlineUsers, mark.senderId)
               /\ mout'[i].to = MapGet(onlineUsers, mark.senderId)
        /\ (/\ mark.pc = "save" /\ mark'.pc = "done"
            /\ mark.unread \subseteq readIds'
            /\ MapHas(onlineUsers, mark.senderId)) =>
             Len(mout') = Len(mout) + 1]_vars

\* the recipient's connection has marked a message of the sender read and
\* the sender's connection, another one, was sent messagesRead
C33_Witness ==
  /\ mark.pc = "done" /\ mark.auth0Id \in Profiles
  /\ mark.auth0Id # mark.senderId
  /\ readIds # {} /\ readIds = FromTo(mark.senderId, mark.auth0Id)
  /\ Len(mout) = 1 /\ mout[1].ev = "messagesRead"
  /\ mout[1].to # mark.sock
====
